---- MODULE Spec2Model ----
(***************************************************************************)
(* A model of iblutil/util.py: the logger factory get_logger (with the     *)
(* per-logger handler lists and levels of the logging module it drives)    *)
(* and the integer range compressor range_str.                             *)
(*                                                                         *)
(* Python values that the code tests for truth or renders with str() are   *)
(* records [t, v]: t = "none" is None, t = "str" is the string v.          *)
(* A Python string that the code builds character by character (the        *)
(* result of range_str) is a sequence of one-character strings.            *)
(***************************************************************************)
EXTENDS Integers, Sequences, FiniteSets, TLC

\* ------------------------------------------------------------------ bounds

\* get_logger calls made in one behaviour of the single-caller specifications
MaxCalls == 3
\* records emitted in one behaviour of the emitting specification
MaxEmits == 2
\* length of the collection handed to range_str
MaxLen == 3
\* range_str calls made in one behaviour of the range_str specification
MaxRangeCalls == 2

\* ----------------------------------------------------------- Python values

PyNone == [t |-> "none", v |-> ""]
PyStr(s) == [t |-> "str", v |-> s]

\* `if not name`, `if file`: None and the empty string are false
Truthy(x) == x.t = "str" /\ x.v # ""

\* str(file) and the rendering of {name} in an f-string
Str(x) == IF x.t = "none" THEN "None" ELSE x.v

\* the logging module's numeric levels and the five names of the colors table
LEVEL == [NOTSET |-> 0, DEBUG |-> 10, INFO |-> 20, WARNING |-> 30,
          ERROR |-> 40, CRITICAL |-> 50]

\* the severities a record can be emitted at
Levels == {LEVEL.DEBUG, LEVEL.INFO, LEVEL.WARNING, LEVEL.ERROR, LEVEL.CRITICAL}

\* the levels passed to get_logger: the default (INFO) and a stricter one
CallLevels == {LEVEL.INFO, LEVEL.WARNING}

\* the name the logging module gives the root logger
ROOT == "root"

\* sys.stdout, the stream of every console handler
STDOUT == "<stdout>"

\* ------------------------------------------------------------ input domains

Names == {PyNone, PyStr(""), PyStr("a")}

Files == {PyNone, PyStr(""), PyStr("f"), PyStr("a_auto")}

\* names and files of the concurrent callers: no file path equals a console tag
MTNames == {PyStr(""), PyStr("a")}

MTFiles == {PyNone, PyStr("f")}

Threads == {1, 2}

\* lines 124-127: the root logger for a false name, else the named logger
LoggerOf(name) == IF ~Truthy(name) THEN ROOT ELSE name.v

Channels == {LoggerOf(n) : n \in Names}

Dests == {STDOUT} \cup {Str(f) : f \in {g \in Files : Truthy(g)}}

Args == [name : Names, level : CallLevels, file : Files, no_color : BOOLEAN]

NoArgs == [name |-> PyNone, level |-> LEVEL.NOTSET, file |-> PyNone, no_color |-> FALSE]

VARIABLES
    handlers,   \* logger name -> log.handlers, a list of handler records
    level,      \* logger name -> log.level
    lines,      \* destination -> number of lines written to it
    last,       \* history: the arguments of the most recent get_logger call
    uniform,    \* history: every call so far had the name and file of `last`
    ncalls,     \* history: number of get_logger calls made
    nemits,     \* history: number of records emitted
    passed,     \* history: number of emitted records that passed their logger's level
    pc,         \* thread -> position inside get_logger
    targs,      \* thread -> the arguments of its call
    values,     \* range_str: the collection passed in
    order,      \* range_str: list(set(values)) as iterated
    trial_str,  \* range_str: the string returned
    prev,       \* range_str: the previous call, [values, out], or <<>>
    rcalls      \* range_str: number of calls made

logvars == <<handlers, level, lines>>
histvars == <<last, uniform, ncalls, nemits, passed>>
thrvars == <<pc, targs>>
rngvars == <<values, order, trial_str, prev, rcalls>>
vars == <<handlers, level, lines, last, uniform, ncalls, nemits, passed,
          pc, targs, values, order, trial_str, prev, rcalls>>

\* ------------------------------------------------------------- get_logger

\* any(map(lambda x: x.name == n, log.handlers))
HasName(hs, n) == \E i \in 1..Len(hs) : hs[i].name = n

\* line 146 and line 150: the name given to the console handler
AutoTag(name) == Str(name) \o "_auto"

\* lines 140-144: a FileHandler on `file`, never coloured, named str(file)
FileHandler(file, lvl) ==
    [kind |-> "file", name |-> Str(file), level |-> lvl, no_color |-> TRUE,
     dest |-> Str(file)]

\* lines 147-151: a StreamHandler on sys.stdout named f'{name}_auto'
StreamHandler(name, lvl, no_color) ==
    [kind |-> "stream", name |-> AutoTag(name), level |-> lvl,
     no_color |-> no_color, dest |-> STDOUT]

\* line 139: the condition under which a file handler is created
FileMissing(hs, file) == Truthy(file) /\ ~HasName(hs, Str(file))

\* line 146: the condition under which a console handler is created
StreamMissing(hs, name) == ~HasName(hs, AutoTag(name))

\* lines 139-145
WithFile(hs, lvl, file) ==
    IF FileMissing(hs, file) THEN Append(hs, FileHandler(file, lvl)) ELSE hs

\* a variant of lines 146-152 that brings a console handler it finds up to date
\* with the level and colour policy of the call
WithStreamReconfigured(hs, name, lvl, no_color) ==
    IF StreamMissing(hs, name)
    THEN Append(hs, StreamHandler(name, lvl, no_color))
    ELSE [i \in 1..Len(hs) |->
            IF hs[i].name = AutoTag(name)
            THEN [hs[i] EXCEPT !.level = lvl, !.no_color = no_color]
            ELSE hs[i]]

\* lines 146-152
WithStream(hs, name, lvl, no_color) ==
    IF StreamMissing(hs, name)
    THEN Append(hs, StreamHandler(name, lvl, no_color))
    ELSE hs

\* lines 139-152: log.handlers when get_logger returns
HandlersAfter(hs, a) ==
    WithStream(WithFile(hs, a.level, a.file), a.name, a.level, a.no_color)

\* one whole call of get_logger, run without interruption
get_logger(a) ==
    /\ ncalls < MaxCalls
    /\ LET log == LoggerOf(a.name) IN
        /\ level' = [level EXCEPT ![log] = a.level]
        /\ handlers' = [handlers EXCEPT ![log] = HandlersAfter(handlers[log], a)]
    /\ last' = a
    /\ uniform' = (ncalls = 0 \/ (uniform /\ a.name = last.name /\ a.file = last.file))
    /\ ncalls' = ncalls + 1
    /\ UNCHANGED <<lines, nemits, passed, thrvars, rngvars>>

\* -------------------------------------------------- emitting on a logger

\* Logger.parent: every logger named here is a child of the root logger
HasParent(log) == log # ROOT

\* Logger.getEffectiveLevel: the first level that is set, walking up
EffectiveLevel(log) ==
    IF level[log] # LEVEL.NOTSET \/ ~HasParent(log) THEN level[log] ELSE level[ROOT]

\* Logger.isEnabledFor
Enabled(log, s) == s >= EffectiveLevel(log)

\* Logger.callHandlers: the logger's own handlers, then (propagate) the root's
Chain(log) == IF HasParent(log) THEN handlers[log] \o handlers[ROOT] ELSE handlers[log]

\* Handler.handle: a handler writes the records at or above its own level
Writes(h, s) == s >= h.level

\* the handlers of `hs` that write a record of severity s to destination d
Writers(hs, s, d) == {i \in 1..Len(hs) : hs[i].dest = d /\ Writes(hs[i], s)}

\* log.info(...) and its siblings, on a logger get_logger has returned
Emit(log, s) ==
    /\ nemits < MaxEmits
    /\ Len(handlers[log]) > 0
    /\ nemits' = nemits + 1
    /\ passed' = IF Enabled(log, s) THEN passed + 1 ELSE passed
    /\ lines' = [d \in Dests |->
                   IF Enabled(log, s)
                   THEN lines[d] + Cardinality(Writers(Chain(log), s, d))
                   ELSE lines[d]]
    /\ UNCHANGED <<handlers, level, last, uniform, ncalls, thrvars, rngvars>>

\* ------------------------------------- get_logger called from two threads

MTArgs == [name : MTNames, level : CallLevels, file : MTFiles, no_color : BOOLEAN]

\* a thread enters get_logger with arguments a
T_Call(t, a) ==
    /\ pc[t] = "idle"
    /\ pc' = [pc EXCEPT ![t] = "setLevel"]
    /\ targs' = [targs EXCEPT ![t] = a]
    /\ UNCHANGED <<logvars, histvars, rngvars>>

\* lines 124-137: the logger is looked up and its level set
T_SetLevel(t) ==
    /\ pc[t] = "setLevel"
    /\ level' = [level EXCEPT ![LoggerOf(targs[t].name)] = targs[t].level]
    /\ pc' = [pc EXCEPT ![t] = "checkFile"]
    /\ UNCHANGED <<handlers, lines, targs, histvars, rngvars>>

\* line 139: the test for an existing file handler
T_CheckFile(t) ==
    /\ pc[t] = "checkFile"
    /\ pc' = [pc EXCEPT ![t] =
                IF FileMissing(handlers[LoggerOf(targs[t].name)], targs[t].file)
                THEN "addFile" ELSE "checkStream"]
    /\ UNCHANGED <<logvars, targs, histvars, rngvars>>

\* lines 140-145: the file handler is created and added
T_AddFile(t) ==
    /\ pc[t] = "addFile"
    /\ handlers' = [handlers EXCEPT ![LoggerOf(targs[t].name)] =
                      Append(@, FileHandler(targs[t].file, targs[t].level))]
    /\ pc' = [pc EXCEPT ![t] = "checkStream"]
    /\ UNCHANGED <<level, lines, targs, histvars, rngvars>>

\* line 146: the test for an existing console handler
T_CheckStream(t) ==
    /\ pc[t] = "checkStream"
    /\ pc' = [pc EXCEPT ![t] =
                IF StreamMissing(handlers[LoggerOf(targs[t].name)], targs[t].name)
                THEN "addStream" ELSE "done"]
    /\ UNCHANGED <<logvars, targs, histvars, rngvars>>

\* lines 147-153: the console handler is created and added, the call returns
T_AddStream(t) ==
    /\ pc[t] = "addStream"
    /\ handlers' = [handlers EXCEPT ![LoggerOf(targs[t].name)] =
                      Append(@, StreamHandler(targs[t].name, targs[t].level,
                                              targs[t].no_color))]
    /\ pc' = [pc EXCEPT ![t] = "done"]
    /\ UNCHANGED <<level, lines, targs, histvars, rngvars>>

\* ---------------------------------------------------------------- range_str

Ints == {-2, -1, 0, 1, 2, 3, 8, 9, 10}

\* the collections passed to range_str: any order, duplicates allowed
Inputs == UNION {[1..n -> Ints] : n \in 0..MaxLen}

SetOf(seq) == {seq[i] : i \in 1..Len(seq)}

\* line 94, list(set(values)): the distinct values in the order the set
\* iterates them, which the language leaves open
Orders(S) ==
    {o \in [1..Cardinality(S) -> S] : \A i, j \in 1..Cardinality(S) : i # j => o[i] # o[j]}

Digit == <<"0", "1", "2", "3", "4", "5", "6", "7", "8", "9">>

RECURSIVE NatStr(_)
NatStr(n) == IF n < 10 THEN <<Digit[n + 1]>> ELSE NatStr(n \div 10) \o <<Digit[(n % 10) + 1]>>

\* str(n) of an int, and its rendering in an f-string
IntStr(n) == IF n < 0 THEN <<"-">> \o NatStr(-n) ELSE NatStr(n)

\* lines 96-102: what iteration i appends to trial_str (i counts from 1 here)
Piece(vs, i) ==
    IF i = 1
    THEN IntStr(vs[1])
    ELSE IF vs[i] - vs[i - 1] = 1
         THEN IF i = Len(vs) \/ vs[i + 1] - vs[i] > 1
              THEN <<"-">> \o IntStr(vs[i])
              ELSE <<>>
         ELSE <<",", " ">> \o IntStr(vs[i])

\* lines 93-102: the loop over the values
RECURSIVE Loop(_, _, _)
Loop(vs, i, acc) == IF i > Len(vs) THEN acc ELSE Loop(vs, i + 1, acc \o Piece(vs, i))

\* str.rfind of one character: the last index holding it, 0 when there is none
RFind(s, c) ==
    IF \E i \in 1..Len(s) : s[i] = c
    THEN CHOOSE i \in 1..Len(s) : s[i] = c /\ \A j \in (i + 1)..Len(s) : s[j] # c
    ELSE 0

\* lines 104-106: the final comma becomes ' &'
Ampersand(s) ==
    LET k == RFind(s, ",") IN
    IF k > 0 THEN SubSeq(s, 1, k - 1) \o <<" ", "&">> \o SubSeq(s, k + 1, Len(s)) ELSE s

\* lines 93-107, on the values as list(set(values)) delivers them
Compress(vs) == Ampersand(Loop(vs, 1, <<>>))

\* the collections holding exactly the distinct values of `seq`
Rearrangements(seq) == {v \in Inputs : SetOf(v) = SetOf(seq)}

\* one call of range_str; the second call is made on a rearrangement (another
\* order, other duplicates) of the first call's collection
range_str(v) ==
    /\ rcalls < MaxRangeCalls
    /\ v \in (IF rcalls = 0 THEN Inputs ELSE Rearrangements(values))
    /\ \E o \in Orders(SetOf(v)) :
        /\ order' = o
        /\ trial_str' = Compress(o)
    /\ values' = v
    /\ prev' = IF rcalls = 0 THEN <<>> ELSE <<[values |-> values, out |-> trial_str]>>
    /\ rcalls' = rcalls + 1
    /\ UNCHANGED <<logvars, histvars, thrvars>>

\* ------------------------------------------------------------ specifications

InitLog ==
    /\ handlers = [c \in Channels |-> <<>>]
    /\ level = [c \in Channels |-> IF c = ROOT THEN LEVEL.WARNING ELSE LEVEL.NOTSET]
    /\ lines = [d \in Dests |-> 0]
    /\ last = NoArgs
    /\ uniform = TRUE
    /\ ncalls = 0
    /\ nemits = 0
    /\ passed = 0
    /\ pc = [t \in Threads |-> "idle"]
    /\ targs = [t \in Threads |-> NoArgs]

InitRangeIdle ==
    /\ values = <<>>
    /\ order = <<>>
    /\ trial_str = <<>>
    /\ prev = <<>>
    /\ rcalls = 0

Init == InitLog /\ InitRangeIdle

\* a single caller provisioning loggers
Next == \E a \in Args : get_logger(a)

Spec == Init /\ [][Next]_vars

\* a single caller provisioning loggers and emitting records on them
NextEmit ==
    \/ \E a \in Args : get_logger(a)
    \/ \E c \in Channels, s \in Levels : Emit(c, s)

SpecEmit == Init /\ [][NextEmit]_vars

NextMT ==
    \/ \E t \in Threads, a \in MTArgs : T_Call(t, a)
    \/ \E t \in Threads : T_SetLevel(t)
    \/ \E t \in Threads : T_CheckFile(t)
    \/ \E t \in Threads : T_AddFile(t)
    \/ \E t \in Threads : T_CheckStream(t)
    \/ \E t \in Threads : T_AddStream(t)

SpecMT == Init /\ [][NextMT]_vars

NextRange == \E v \in Inputs : range_str(v)

SpecRange == Init /\ [][NextRange]_vars

\* -------------------------------------------------------------- properties

\* the console sinks (stream handlers) attached to a logger
ConsoleSinks(log) == {i \in 1..Len(handlers[log]) : handlers[log][i].kind = "stream"}

\* the file sinks attached to a logger that write to `path`
FileSinks(log, path) ==
    {i \in 1..Len(handlers[log]) :
        handlers[log][i].kind = "file" /\ handlers[log][i].dest = path}

AllFileSinks(log) == {i \in 1..Len(handlers[log]) : handlers[log][i].kind = "file"}

\* the logger the most recent call returned
LastLog == LoggerOf(last.name)

\* C1: after N >= 1 calls of get_logger, all with one name and one file, the
\* logger has exactly one console sink, exactly one file sink for the path
\* when a file was given, and no file sink when none was given.
C1_IdempotentProvisioning ==
    (ncalls >= 1 /\ uniform) =>
        /\ Cardinality(ConsoleSinks(LastLog)) = 1
        /\ Truthy(last.file) => Cardinality(FileSinks(LastLog, Str(last.file))) = 1
        /\ ~Truthy(last.file) => AllFileSinks(LastLog) = {}

\* C2: whatever calls were made, every logger has at most one console sink and
\* at most one file sink per file path.
C2_AtMostOneSinkPerDestination ==
    \A log \in Channels :
        /\ Cardinality(ConsoleSinks(log)) <= 1
        /\ \A d \in Dests : Cardinality(FileSinks(log, d)) <= 1

\* C3: when every call so far had one name and one file path, each emitted
\* record that passed the logger's level is in the file exactly once: the
\* file holds as many lines as records passed.
C3_OneLinePerEmission ==
    (ncalls >= 1 /\ uniform /\ Truthy(last.file)) => lines[Str(last.file)] = passed

\* C6: with L the level of the most recent call, a record of severity s
\* emitted on the logger that call returned is written by the logger's sinks
\* if and only if s >= L.
C6_LastLevelDecidesOutput ==
    ncalls >= 1 =>
        \A s \in Levels : \A i \in 1..Len(handlers[LastLog]) :
            (Enabled(LastLog, s) /\ Writes(handlers[LastLog][i], s)) <=> s >= last.level

\* C7: a call that names a file leaves the logger with a console sink and
\* with a file sink for that path: neither tag is taken for the other.
C7_TagsNeverConfused ==
    (ncalls >= 1 /\ Truthy(last.file)) =>
        /\ ConsoleSinks(LastLog) # {}
        /\ FileSinks(LastLog, Str(last.file)) # {}

\* C8: when two threads have both returned from get_logger called with one
\* name and one file, the logger has exactly one console sink and at most one
\* file sink for the path, whatever the interleaving was.
C8_AtomicCheckThenAct ==
    (/\ \A t \in Threads : pc[t] = "done"
     /\ targs[1].name = targs[2].name
     /\ targs[1].file = targs[2].file) =>
        LET log == LoggerOf(targs[1].name) IN
        /\ Cardinality(ConsoleSinks(log)) = 1
        /\ Truthy(targs[1].file) => Cardinality(FileSinks(log, Str(targs[1].file))) <= 1

\* C9: no step removes, replaces or reconfigures an attached sink: every
\* logger's handler list before the step is a prefix of its list after it,
\* each handler with its level, colour policy and destination as they were.
C9_SinksOnlyAdded ==
    [][\A log \in Channels :
          /\ Len(handlers'[log]) >= Len(handlers[log])
          /\ SubSeq(handlers'[log], 1, Len(handlers[log])) = handlers[log]]_vars

\* C9 witness: the most recent of several calls found its console sink already
\* attached, asked for another level and another colour policy, and the sink
\* still has the ones it was created with.
C9_Witness ==
    /\ ncalls >= 2
    /\ \E i \in 1..Len(handlers[LastLog]) :
        /\ handlers[LastLog][i].kind = "stream"
        /\ handlers[LastLog][i].name = AutoTag(last.name)
        /\ handlers[LastLog][i].level # last.level
        /\ handlers[LastLog][i].no_color # last.no_color

\* the least element of a non-empty set of integers
Least(S) == CHOOSE x \in S : \A y \in S : x <= y

\* the first values of the maximal runs of consecutive integers of S
RunStarts(S) == {x \in S : x - 1 \notin S}

\* the last value of the maximal run that starts at a
RunEnd(S, a) == CHOOSE b \in S : b >= a /\ (\A x \in a..b : x \in S) /\ b + 1 \notin S

\* a bare number for a run of length 1, 'start-end' for a longer one
Segment(S, a) ==
    IF RunEnd(S, a) = a THEN IntStr(a) ELSE IntStr(a) \o <<"-">> \o IntStr(RunEnd(S, a))

\* the segments in ascending order, joined by ', ' and, last, by ' & '
RECURSIVE Joined(_, _)
Joined(S, starts) ==
    IF starts = {}
    THEN <<>>
    ELSE LET a == Least(starts)
             rest == starts \ {a}
         IN Segment(S, a)
            \o (IF rest = {} THEN <<>>
                ELSE IF Cardinality(rest) = 1 THEN <<" ", "&", " ">> ELSE <<",", " ">>)
            \o Joined(S, rest)

Expected(S) == Joined(S, RunStarts(S))

\* C4: range_str returns the deduplicated values, sorted ascending, each
\* maximal run of consecutive integers collapsed to one segment, the segments
\* joined by ', ' with ' & ' before the last; '' for the empty collection.
C4_SortedRunsString ==
    rcalls >= 1 => trial_str = Expected(SetOf(values))

\* C5: two calls on collections with the same distinct values return the same
\* string.
C5_OrderAndMultiplicityIndependent ==
    (Len(prev) = 1 /\ SetOf(prev[1].values) = SetOf(values)) => prev[1].out = trial_str

IsDigit(c) == \E d \in 1..10 : Digit[d] = c

DigitVal(c) == (CHOOSE d \in 1..10 : Digit[d] = c) - 1

\* the decimal number that starts at s[i], and the index after it
RECURSIVE ReadNat(_, _, _)
ReadNat(s, i, acc) ==
    IF i <= Len(s) /\ IsDigit(s[i])
    THEN ReadNat(s, i + 1, acc * 10 + DigitVal(s[i]))
    ELSE [val |-> acc, next |-> i]

ReadInt(s, i) ==
    IF i <= Len(s) /\ s[i] = "-"
    THEN LET r == ReadNat(s, i + 1, 0) IN [val |-> 0 - r.val, next |-> r.next]
    ELSE ReadNat(s, i, 0)

\* the values the segments of s from index i on stand for: n for a bare
\* number, every integer from a to b for 'a-b'
RECURSIVE Expand(_, _)
Expand(s, i) ==
    IF i > Len(s)
    THEN {}
    ELSE LET a == ReadInt(s, i)
             b == IF a.next <= Len(s) /\ s[a.next] = "-" THEN ReadInt(s, a.next + 1) ELSE a
             sep == IF b.next > Len(s) THEN 0 ELSE IF s[b.next] = "," THEN 2 ELSE 3
         IN (a.val..b.val) \cup Expand(s, b.next + sep)

\* C10: the segments of the returned string, expanded, are exactly the
\* distinct values passed in.
C10_NoValueLostOrInvented ==
    rcalls >= 1 => Expand(trial_str, 1) = SetOf(values)

====
